---- MODULE Spec2Model ----
(***************************************************************************)
(* The batch pipeline of src/main.py: two TSV tables (users, recordings)   *)
(* are merged, reduced to the first recording of every user, the           *)
(* Recording_Summary dictionary is unpacked into columns, two calculated   *)
(* columns are added, outlier metrics are nulled, three integrity checks   *)
(* run, and the table is saved.                                            *)
(*                                                                         *)
(* Representation.  A table is a sequence of rows; a row is a function     *)
(* from column names to cells.  Every cell is a sequence: the empty        *)
(* sequence is the missing value (NaN / NaT; read_csv turns an empty       *)
(* field into NaN), a text cell is the sequence of its characters, a       *)
(* numeric or timestamp cell is <<v>>.  Characters are codes: 0..9 are the *)
(* digits, Letter is a character that is no digit.  A timestamp text is a  *)
(* numeral of seconds since an epoch, written with or without a leading    *)
(* zero; its characters compare as Python compares strings.                *)
(***************************************************************************)
EXTENDS Integers, Sequences, FiniteSets, TLC

VARIABLES users_df, recordings_df, df, pc, error, output

vars == <<users_df, recordings_df, df, pc, error, output>>

\* Bounds of the model: the longest users and recordings tables drawn.
MaxUsers == 2
MaxRecordings == 2

NaN == <<>>
Letter == 9 + 1

-----------------------------------------------------------------------------
(* Cells and conversions *)

\* The value of a numeral text.
RECURSIVE ToSeconds(_)
ToSeconds(t) ==
    IF t = <<>> THEN 0
    ELSE 10 * ToSeconds(SubSeq(t, 1, Len(t) - 1)) + t[Len(t)]

\* A text that astype('datetime64[ns]') can parse.
Parseable(t) == t /= <<>> /\ \A i \in 1..Len(t) : t[i] \in 0..9

\* astype('datetime64[ns]') on one cell that is NaN or parseable.
ToDatetime(t) == IF t = NaN THEN NaN ELSE <<ToSeconds(t)>>

\* Python's < on two strings: by the first differing character, a proper
\* prefix being smaller.
RECURSIVE StrLess(_, _)
StrLess(a, b) ==
    IF b = <<>> THEN FALSE
    ELSE IF a = <<>> THEN TRUE
    ELSE IF a[1] /= b[1] THEN a[1] < b[1]
    ELSE StrLess(Tail(a), Tail(b))

\* A Recording_Summary string: the text of a dict literal with the given
\* key/value items, closed by its brace or cut short.
SummaryText(items, closed) == <<[items |-> items, closed |-> closed]>>

Item(k, v) == [k |-> k, v |-> v]

\* ast.literal_eval on a well-formed dict literal: a later item of the same
\* key replaces an earlier one.
LiteralEval(s) ==
    LET keys == {s.items[i].k : i \in 1..Len(s.items)}
        last(k) == CHOOSE i \in 1..Len(s.items) :
                      /\ s.items[i].k = k
                      /\ \A j \in 1..Len(s.items) : s.items[j].k = k => j <= i
    IN  [k \in keys |-> <<s.items[last(k)].v>>]

EmptyDict == [k \in {} |-> NaN]

\* lambda x: ast.literal_eval(x) if type(x) == str else {}
ParseSummary(cell) == IF cell = NaN THEN EmptyDict ELSE LiteralEval(cell[1])

\* ast.literal_eval raises on this cell.
SummaryRaises(cell) == cell /= NaN /\ ~cell[1].closed

RECURSIVE Concat(_)
Concat(ss) == IF ss = <<>> THEN <<>> ELSE Head(ss) \o Concat(Tail(ss))

NoError == [exc |-> "none", line |-> 0]
Raised(exc, line) == [exc |-> exc, line |-> line]

-----------------------------------------------------------------------------
(* merge_dataframes *)

JoinRow(u, r) ==
    [Pseudo_User_ID |-> u.Pseudo_User_ID, signup_date |-> u.signup_date,
     start_date |-> u.start_date, Recording_ID |-> r.Recording_ID,
     Date_Time |-> r.Date_Time, Activity_Type |-> r.Activity_Type,
     Recording_Summary |-> r.Recording_Summary]

NoRecording ==
    [Recording_ID |-> NaN, Date_Time |-> NaN, Activity_Type |-> NaN,
     Recording_Summary |-> NaN]

\* The rows a users row contributes to the left join: one per recording with
\* an equal key (merge matches a NaN key with a NaN key), in the recordings'
\* order, or one row with NaN recording columns.
LeftJoin(u, recs) ==
    LET m == SelectSeq(recs, LAMBDA r : r.Pseudo_User_ID = u.Pseudo_User_ID)
    IN  IF m = <<>> THEN <<JoinRow(u, NoRecording)>>
        ELSE [i \in 1..Len(m) |-> JoinRow(u, m[i])]

merge_dataframes(users, recs) ==
    Concat([i \in 1..Len(users) |-> LeftJoin(users[i], recs)])

-----------------------------------------------------------------------------
(* clean_dataframe *)

\* RowNumber with rank(method='min'): equal texts share a rank.
RowNumberMin(d, i) ==
    IF d[i].Pseudo_User_ID = NaN \/ d[i].Date_Time = NaN THEN NaN
    ELSE <<1 + Cardinality({j \in 1..Len(d) :
                /\ d[j].Pseudo_User_ID = d[i].Pseudo_User_ID
                /\ d[j].Date_Time /= NaN
                /\ StrLess(d[j].Date_Time, d[i].Date_Time)})>>

\* groupby('Pseudo_User_ID')['Date_Time'].rank(method='first', ascending=True)
\* for row i: the Date_Time cells are still the texts read from the file, a
\* NaN cell has rank NaN, a row with a NaN key belongs to no group, and equal
\* texts are ranked in the order the rows appear.
RowNumber(d, i) ==
    IF d[i].Pseudo_User_ID = NaN \/ d[i].Date_Time = NaN THEN NaN
    ELSE <<1 + Cardinality({j \in 1..Len(d) :
                /\ d[j].Pseudo_User_ID = d[i].Pseudo_User_ID
                /\ d[j].Date_Time /= NaN
                /\ \/ StrLess(d[j].Date_Time, d[i].Date_Time)
                   \/ d[j].Date_Time = d[i].Date_Time /\ j < i})>>

\* df['RowNumber'] = ... on the merged frame.
WithRowNumber(d) ==
    [i \in 1..Len(d) |-> [RowNumber |-> RowNumber(d, i)] @@ d[i]]

\* The rows of rank 1 among the first n rows of d, in order.
RECURSIVE FirstRowsUpTo(_, _)
FirstRowsUpTo(d, n) ==
    IF n = 0 THEN <<>>
    ELSE IF RowNumber(d, n) = <<1>> THEN Append(FirstRowsUpTo(d, n - 1), d[n])
    ELSE FirstRowsUpTo(d, n - 1)

\* df.loc[df['RowNumber'] == 1, :].drop('RowNumber', axis=1)
FirstRows(d) == FirstRowsUpTo(d, Len(d))

Renamed(row) ==
    [PseudoUserID |-> row.Pseudo_User_ID,
     AccountSignUpDateTime |-> row.signup_date,
     ProSubscriptionSignUpDateTime |-> row.start_date,
     FirstRecordingID |-> row.Recording_ID,
     FirstRecordingDateTime |-> row.Date_Time,
     FirstRecordingActivityType |-> row.Activity_Type,
     Recording_Summary |-> row.Recording_Summary]

\* astype('datetime64[ns]') raises on column c of d.
CoercionRaises(d, c) ==
    \E i \in 1..Len(d) : d[i][c] /= NaN /\ ~Parseable(d[i][c])

Cleaned(row) ==
    [row EXCEPT
        !.AccountSignUpDateTime = ToDatetime(@),
        !.ProSubscriptionSignUpDateTime = ToDatetime(@),
        !.FirstRecordingDateTime = ToDatetime(@),
        !.Recording_Summary = ParseSummary(@)]

clean_dataframe(d) ==
    LET first == FirstRows(d)
        renamed == [i \in 1..Len(first) |-> Renamed(first[i])]
    IN  IF CoercionRaises(renamed, "AccountSignUpDateTime")
        THEN [df |-> WithRowNumber(d), error |-> Raised("ValueError", 100)]
        ELSE IF CoercionRaises(renamed, "ProSubscriptionSignUpDateTime")
        THEN [df |-> WithRowNumber(d), error |-> Raised("ValueError", 101)]
        ELSE IF CoercionRaises(renamed, "FirstRecordingDateTime")
        THEN [df |-> WithRowNumber(d), error |-> Raised("ValueError", 102)]
        ELSE IF \E i \in 1..Len(renamed) :
                    SummaryRaises(renamed[i].Recording_Summary)
        THEN [df |-> WithRowNumber(d), error |-> Raised("SyntaxError", 105)]
        ELSE [df |-> [i \in 1..Len(renamed) |-> Cleaned(renamed[i])],
              error |-> NoError]

-----------------------------------------------------------------------------
(* unpack_recording_summary *)

RenameKey(k) ==
    CASE k = "calories" -> "FirstRecordingCaloriesBurned"
      [] k = "duration" -> "FirstRecordingDuration"
      [] k = "timeTotal" -> "FirstRecordingTotalTime"
      [] k = "updatedAt" -> "FirstRecordingUpdatedDateTime"
      [] k = "timeMoving" -> "FirstRecordingMovingTime"
      [] k = "paceAverage" -> "FirstRecordingAveragePace"
      [] k = "speedAverage" -> "FirstRecordingAverageSpeed"
      [] k = "distanceTotal" -> "FirstRecordingTotalDistance"
      [] k = "elevationGain" -> "FirstRecordingElevationGain"
      [] k = "elevationLoss" -> "FirstRecordingElevationLoss"
      [] OTHER -> k

\* df['Recording_Summary'] != {}
NonEmptySummary(row) == DOMAIN row.Recording_Summary /= {}

\* The columns of parsed_fields_df: every key of every non-empty dictionary.
ParsedKeys(d) ==
    UNION {DOMAIN d[i].Recording_Summary :
              i \in {j \in 1..Len(d) : NonEmptySummary(d[j])}}

\* One row of df.merge(parsed_fields_df, how='left', ...).drop(...).rename(...)
Unpacked(row, keys) ==
    LET scalars == DOMAIN row \ {"Recording_Summary"}
        parsed == [c \in {RenameKey(k) : k \in keys} |->
                     LET key == CHOOSE k \in keys : RenameKey(k) = c
                     IN  IF key \in DOMAIN row.Recording_Summary
                         THEN row.Recording_Summary[key] ELSE NaN]
    IN  [c \in scalars |-> row[c]] @@ parsed

\* With no non-empty dictionary the apply returns an empty Series named
\* Recording_Summary; the merge then suffixes both Recording_Summary
\* columns and drop('Recording_Summary') raises KeyError.
unpack_recording_summary(d) ==
    IF \A i \in 1..Len(d) : ~NonEmptySummary(d[i])
    THEN [df |-> d, error |-> Raised("KeyError", 59)]
    ELSE [df |-> [i \in 1..Len(d) |-> Unpacked(d[i], ParsedKeys(d))],
          error |-> NoError]

-----------------------------------------------------------------------------
(* compute_calculated_columns *)

\* The seconds of an hour, the divisor of line 122.
SecondsPerHour == 3600

\* InvalidFirstRecordingDateFlag with >= for >.
FlagNotEarlier(row) ==
    IF /\ row.AccountSignUpDateTime /= NaN
       /\ row.FirstRecordingDateTime /= NaN
       /\ row.AccountSignUpDateTime[1] >= row.FirstRecordingDateTime[1]
    THEN 1 ELSE 0

\* 1 if x['AccountSignUpDateTime'] > x['FirstRecordingDateTime'] else 0:
\* a comparison with NaT is False.
InvalidFirstRecordingDateFlag(row) ==
    IF /\ row.AccountSignUpDateTime /= NaN
       /\ row.FirstRecordingDateTime /= NaN
       /\ row.AccountSignUpDateTime[1] > row.FirstRecordingDateTime[1]
    THEN 1 ELSE 0

\* (FirstRecordingDateTime - AccountSignUpDateTime).dt.total_seconds() / 3600:
\* the float is kept as the fraction <<seconds, 3600>>, NaN when either
\* timestamp is NaT.
DurationFloat(row) ==
    IF row.AccountSignUpDateTime = NaN \/ row.FirstRecordingDateTime = NaN
    THEN NaN
    ELSE <<row.FirstRecordingDateTime[1] - row.AccountSignUpDateTime[1],
           SecondsPerHour>>

\* AsInt rounding down (floor) instead of toward zero.
AsIntFloor(n, d) == n \div d

\* astype(int) on a float n/d: the fractional part is discarded.
AsInt(n, d) == IF n >= 0 THEN n \div d ELSE -((-n) \div d)

compute_calculated_columns(d) ==
    LET flagged == [i \in 1..Len(d) |->
                      [InvalidFirstRecordingDateFlag |->
                           <<InvalidFirstRecordingDateFlag(d[i])>>,
                       FirstRecordingDurationInHours |-> DurationFloat(d[i])]
                      @@ d[i]]
    IN  IF \E i \in 1..Len(d) : DurationFloat(d[i]) = NaN
        THEN [df |-> flagged, error |-> Raised("ValueError", 123)]
        ELSE [df |-> [i \in 1..Len(d) |->
                        [flagged[i] EXCEPT !.FirstRecordingDurationInHours =
                                               <<AsInt(@[1], @[2])>>]],
              error |-> NoError]

-----------------------------------------------------------------------------
(* validate_df *)

outlier_rules ==
    << [activity_type |-> "Hiking", metric |-> "FirstRecordingTotalTime",
        max_value |-> 64800],
       [activity_type |-> "Backpacking", metric |-> "FirstRecordingTotalTime",
        max_value |-> 864000],
       [activity_type |-> "Hiking", metric |-> "FirstRecordingAverageSpeed",
        max_value |-> 6] >>

\* rows_impacted without the activity type test.
rows_impacted_any_activity(row, rule) ==
    /\ row[rule.metric] /= NaN
    /\ row[rule.metric][1] > rule.max_value

\* (df['FirstRecordingActivityType'] == activity_type) & (df[metric] > max_value)
\* for one row: a comparison with NaN is False.
rows_impacted(row, rule) ==
    /\ row.FirstRecordingActivityType = <<rule.activity_type>>
    /\ row[rule.metric] /= NaN
    /\ row[rule.metric][1] > rule.max_value

\* df.loc[rows_impacted, metric] = np.nan
ApplyRule(d, rule) ==
    [i \in 1..Len(d) |->
        IF rows_impacted(d[i], rule)
        THEN [d[i] EXCEPT ![rule.metric] = NaN] ELSE d[i]]

\* The columns of the frame (the frames that reach validate_df have a row).
Columns(d) == IF d = <<>> THEN {} ELSE DOMAIN d[1]

\* The loop over the rules from rule k on; df[metric] raises KeyError when
\* the column does not exist, the rules before it having been applied.
RECURSIVE ApplyRules(_, _)
ApplyRules(d, k) ==
    IF k > Len(outlier_rules) THEN [df |-> d, error |-> NoError]
    ELSE IF outlier_rules[k].metric \notin Columns(d)
    THEN [df |-> d, error |-> Raised("KeyError", 161)]
    ELSE ApplyRules(ApplyRule(d, outlier_rules[k]), k + 1)

\* Series.is_unique: no value occurs twice, NaN counting as a value.
is_unique(d, c) ==
    \A i, j \in 1..Len(d) : i /= j => d[i][c] /= d[j][c]

\* Series.isnull().values.any()
AnyNull(d, c) == \E i \in 1..Len(d) : d[i][c] = NaN

\* raise exception(...) raises NameError: no name exception is defined.
validate_df(d) ==
    LET r == ApplyRules(d, 1)
    IN  IF r.error /= NoError THEN r
        ELSE IF ~is_unique(r.df, "PseudoUserID")
        THEN [df |-> r.df, error |-> Raised("NameError", 165)]
        ELSE IF ~is_unique(r.df, "FirstRecordingID")
        THEN [df |-> r.df, error |-> Raised("NameError", 167)]
        ELSE IF AnyNull(r.df, "PseudoUserID")
        THEN [df |-> r.df, error |-> Raised("NameError", 169)]
        ELSE r

-----------------------------------------------------------------------------
(* The run of __main__ *)

\* One stage of lines 199-203: the frame is replaced by the stage's result;
\* an exception ends the run.
Stage(from, to, result) ==
    /\ pc = from
    /\ df' = result.df
    /\ error' = result.error
    /\ pc' = IF result.error = NoError THEN to ELSE "aborted"
    /\ UNCHANGED <<users_df, recordings_df, output>>

MergeDataframes ==
    Stage("loaded", "merged",
          [df |-> merge_dataframes(users_df, recordings_df), error |-> NoError])

CleanDataframe == Stage("merged", "cleaned", clean_dataframe(df))

UnpackRecordingSummary ==
    Stage("cleaned", "unpacked", unpack_recording_summary(df))

ComputeCalculatedColumns ==
    Stage("unpacked", "computed", compute_calculated_columns(df))

ValidateDf == Stage("computed", "validated", validate_df(df))

\* SaveDf reached also after an exception (an except clause that carries on).
SaveDfAfterError ==
    /\ pc \in {"validated", "aborted"}
    /\ output' = <<df>>
    /\ pc' = "saved"
    /\ UNCHANGED <<users_df, recordings_df, df, error>>

\* df.to_csv('./output_data/UsersDataset.csv', index=False): the output file
\* is <<df>> once written.
SaveDf ==
    /\ pc = "validated"
    /\ output' = <<df>>
    /\ pc' = "saved"
    /\ UNCHANGED <<users_df, recordings_df, df, error>>

Next ==
    \/ MergeDataframes
    \/ CleanDataframe
    \/ UnpackRecordingSummary
    \/ ComputeCalculatedColumns
    \/ ValidateDf
    \/ SaveDf

-----------------------------------------------------------------------------
(* The tables load_data hands to the run *)

SeqsUpTo(S, n) == UNION {[1..k -> S] : k \in 0..n}

User(id, signup, start) ==
    [Pseudo_User_ID |-> id, signup_date |-> signup, start_date |-> start]

Recording(rid, uid, time, type, summary) ==
    [Recording_ID |-> rid, Pseudo_User_ID |-> uid, Date_Time |-> time,
     Activity_Type |-> <<type>>, Recording_Summary |-> summary]

\* A summary that carries both metrics validate_df reads, below every maximum.
PlainSummary ==
    SummaryText(<<Item("timeTotal", 100), Item("speedAverage", 1)>>, TRUE)

Start(u, r) ==
    /\ users_df = u
    /\ recordings_df = r
    /\ df = <<>>
    /\ pc = "loaded"
    /\ error = NoError
    /\ output = <<>>

\* Users with repeated and missing identifiers; recordings of two users at
\* times written with and without a leading zero.
JoinUsers == {User(id, <<1, 8, 0, 0>>, NaN) : id \in {<<1>>, <<2>>, NaN}}

JoinRecordings ==
    {Recording(rid, uid, time, "Running", PlainSummary) :
        rid \in {<<1>>, <<2>>}, uid \in {<<1>>, <<2>>},
        time \in {<<0, 9, 0, 0>>, <<9, 0, 0>>, <<1, 8, 0, 0>>}}

InitJoin ==
    \E u \in SeqsUpTo(JoinUsers, MaxUsers),
       r \in SeqsUpTo(JoinRecordings, MaxRecordings) : Start(u, r)

\* User k has the one recording k.
OnePerUser(n, rid, type, summary) ==
    Start([k \in 1..n |-> User(<<k>>, <<1, 8, 0, 0>>, NaN)],
          [k \in 1..n |-> Recording(rid[k], <<k>>, <<7, 2, 0, 0>>,
                                     type[k], summary[k])])

\* Summaries: missing, empty, cut short, with the metrics at, above and
\* below the maxima, without one or both metrics, with an unknown key and
\* with a repeated key.
Summaries ==
    {NaN, SummaryText(<<>>, TRUE),
     SummaryText(<<Item("timeTotal", 70000)>>, FALSE),
     SummaryText(<<Item("timeTotal", 70000)>>, TRUE),
     SummaryText(<<Item("calories", 100)>>, TRUE),
     SummaryText(<<Item("calories", 100), Item("timeTotal", 864001),
                   Item("speedAverage", 7), Item("foo", 1)>>, TRUE),
     SummaryText(<<Item("timeTotal", 1), Item("speedAverage", 6),
                   Item("timeTotal", 864000)>>, TRUE)}
    \cup {SummaryText(<<Item("timeTotal", t), Item("speedAverage", v)>>, TRUE) :
             t \in {64800, 70000}, v \in {6, 7}}

ActivityTypes == {"Hiking", "Backpacking", "Running"}

InitSummaries ==
    \E n \in 0..MaxUsers :
        \E f \in [1..n -> ActivityTypes \X Summaries] :
            OnePerUser(n, [k \in 1..n |-> <<k>>], [k \in 1..n |-> f[k][1]],
                       [k \in 1..n |-> f[k][2]])

\* Sign-up, subscription and recording times that are missing, earlier,
\* later, and no timestamp at all.
TimesOfUser ==
    {NaN, <<1, 8, 0, 0>>, <<9, 0, 0, 0>>, <<Letter>>} \X {NaN, <<Letter>>}
        \X {NaN, <<9, 0, 0>>, <<7, 2, 0, 0>>, <<Letter>>}

InitTimes ==
    \E n \in 0..MaxUsers :
        \E f \in [1..n -> TimesOfUser] :
            Start([k \in 1..n |-> User(<<k>>, f[k][1], f[k][2])],
                  [k \in 1..n |-> Recording(<<k>>, <<k>>, f[k][3], "Running",
                                             PlainSummary)])

\* Recording identifiers that repeat or are missing.
InitIds ==
    \E n \in 0..MaxUsers :
        \E f \in [1..n -> {<<1>>, <<2>>, NaN}] :
            OnePerUser(n, f, [k \in 1..n |-> "Hiking"],
                       [k \in 1..n |-> PlainSummary])

Init == InitJoin \/ InitTimes \/ InitSummaries \/ InitIds

Spec == Init /\ [][Next]_vars

-----------------------------------------------------------------------------
(* Properties *)

\* clean_dataframe has returned: the frame is the cleaned one or a later one.
CleanDone ==
    /\ pc \notin {"loaded", "merged"}
    /\ error.line \notin {100, 101, 102, 105}

\* compute_calculated_columns has returned.
ComputeDone ==
    \/ pc \in {"computed", "validated", "saved"}
    \/ pc = "aborted" /\ error.line \in {161, 165, 167, 169}

UserIds == {users_df[i].Pseudo_User_ID : i \in 1..Len(users_df)} \ {NaN}

RowsOf(d, c, v) == SelectSeq(d, LAMBDA row : row[c] = v)

\* C1: for every user identifier of the users table, users without a
\* recording included, the table that passed validate_df holds exactly one
\* row with that identifier.
C1_EveryUserExactlyOneRow ==
    pc \in {"validated", "saved"} =>
        \A id \in UserIds : Len(RowsOf(df, "PseudoUserID", id)) = 1

\* C2: for every user with a recording, the one row clean_dataframe keeps is
\* the merged row of that user with the least recording time, the earliest
\* in row order among the rows sharing that time.
C2_EarliestRecordingKept ==
    pc = "cleaned" =>
        LET m == merge_dataframes(users_df, recordings_df)
            same(i) == {j \in 1..Len(m) :
                           m[j].Pseudo_User_ID = m[i].Pseudo_User_ID}
            time(i) == ToSeconds(m[i].Date_Time)
            earliest(i) ==
                \A j \in same(i) :
                    time(i) < time(j) \/ (time(i) = time(j) /\ i <= j)
        IN  \A i \in 1..Len(m) :
                (/\ m[i].Pseudo_User_ID /= NaN
                 /\ \A j \in same(i) : Parseable(m[j].Date_Time)
                 /\ earliest(i))
                => RowsOf(df, "PseudoUserID", m[i].Pseudo_User_ID)
                       = <<Cleaned(Renamed(m[i]))>>

\* C2 where it holds: when every Date_Time text has the same width (four
\* characters, zero-padded) the order of the texts is the order of the
\* times, and the earliest recording is the one kept.
C2_EarliestKeptFixedWidth ==
    (\A i \in 1..Len(recordings_df) :
        Len(recordings_df[i].Date_Time) \in {0, 4})
    => C2_EarliestRecordingKept

\* C3: the output is written only by a run that met no error and whose
\* table passes validate_df; a run that raised is aborted and has written
\* nothing.
C3_SavedOnlyAfterValidation ==
    /\ output /= <<>> =>
          /\ pc = "saved" /\ error = NoError /\ output = <<df>>
          /\ validate_df(df) = [df |-> df, error |-> NoError]
    /\ error /= NoError => pc = "aborted" /\ output = <<>>
    /\ pc = "aborted" => error /= NoError

\* C3 witness: a run aborted by a check of validate_df, nothing written.
C3_Witness ==
    pc = "aborted" /\ error.exc = "NameError" /\ output = <<>>

DuplicatedUsers ==
    {id \in UserIds :
        \E i, j \in 1..Len(users_df) :
            i /= j /\ users_df[i].Pseudo_User_ID = id
                   /\ users_df[j].Pseudo_User_ID = id}

\* C4 as stated: when a user identifier occurs on two rows of the users
\* table, nothing is persisted.
C4_DuplicateUserNeverSaved == DuplicatedUsers /= {} => pc /= "saved"

\* C4 amended: clean_dataframe keeps at most one row of every user
\* identifier, so the identifier check of line 164 never fails.
C4_DuplicatesReducedByClean ==
    /\ error /= Raised("NameError", 165)
    /\ CleanDone => is_unique(df, "PseudoUserID")

\* C4 witness: a duplicated user saved as one row.
C4_Witness ==
    /\ pc = "saved"
    /\ \E id \in DuplicatedUsers : Len(RowsOf(output[1], "PseudoUserID", id)) = 1

\* C5: the FirstRecordingID check of line 166 fails only on a table where
\* two rows share a FirstRecordingID that is not missing.
C5_NullRecordingIdsPass ==
    error = Raised("NameError", 167) =>
        \E i, j \in 1..Len(df) :
            /\ i /= j
            /\ df[i].FirstRecordingID /= NaN
            /\ df[i].FirstRecordingID = df[j].FirstRecordingID

\* The rules the loop of validate_df reaches on frame d.
AppliedRules(d) ==
    {k \in 1..Len(outlier_rules) :
        \A j \in 1..k : outlier_rules[j].metric \in Columns(d)}

\* C6: validate_df nulls a metric cell exactly when a rule of that metric
\* names the row's activity type and the value is above the rule's maximum;
\* every other cell and the number of rows stay as they were.  Hiking with
\* a total time of 70000 is nulled, Backpacking with 70000 is not.
C6_OutlierFrame ==
    [][pc = "computed" =>
        /\ Len(df') = Len(df)
        /\ \A i \in 1..Len(df) :
            /\ DOMAIN df'[i] = DOMAIN df[i]
            /\ \A c \in DOMAIN df[i] :
                LET above ==
                      \E k \in AppliedRules(df) :
                          /\ outlier_rules[k].metric = c
                          /\ df[i].FirstRecordingActivityType
                                 = <<outlier_rules[k].activity_type>>
                          /\ df[i][c] /= NaN
                          /\ df[i][c][1] > outlier_rules[k].max_value
                IN  df'[i][c] = IF above THEN NaN ELSE df[i][c]
            /\ ("FirstRecordingTotalTime" \in DOMAIN df[i]
                   /\ df[i].FirstRecordingTotalTime = <<70000>>) =>
                  df'[i].FirstRecordingTotalTime =
                      IF df[i].FirstRecordingActivityType = <<"Hiking">>
                      THEN NaN ELSE <<70000>>
    ]_vars

\* C6 witness: validate_df returned a table where a Hiking recording read
\* with a total time of 70000 has none and a Backpacking recording read with
\* 70000 still has it.
C6_Witness ==
    /\ pc = "validated"
    /\ \E i, j \in 1..Len(df) :
        /\ df[i].FirstRecordingActivityType = <<"Hiking">>
        /\ df[i].FirstRecordingTotalTime = NaN
        /\ \E r \in 1..Len(recordings_df) :
              /\ recordings_df[r].Recording_ID = df[i].FirstRecordingID
              /\ ParseSummary(recordings_df[r].Recording_Summary)
                     = [timeTotal |-> <<70000>>, speedAverage |-> <<6>>]
        /\ df[j].FirstRecordingActivityType = <<"Backpacking">>
        /\ df[j].FirstRecordingTotalTime = <<70000>>

\* C7: the flag of a row is 1 exactly when the sign-up time and the
\* first-recording time are both present and the sign-up time is later; it
\* is 0 otherwise, also when a timestamp is missing.
C7_FlagIffSignupLater ==
    \A i \in 1..Len(df) :
        "InvalidFirstRecordingDateFlag" \in DOMAIN df[i] =>
            LET a == df[i].AccountSignUpDateTime
                f == df[i].FirstRecordingDateTime
            IN  df[i].InvalidFirstRecordingDateFlag =
                    IF a /= NaN /\ f /= NaN /\ a[1] > f[1]
                    THEN <<1>> ELSE <<0>>

\* C7 witness: a frame with a row flagged 1 and a row without sign-up time
\* flagged 0.
C7_Witness ==
    \E i, j \in 1..Len(df) :
        /\ "InvalidFirstRecordingDateFlag" \in DOMAIN df[i]
        /\ df[i].InvalidFirstRecordingDateFlag = <<1>>
        /\ df[j].AccountSignUpDateTime = NaN
        /\ df[j].InvalidFirstRecordingDateFlag = <<0>>

\* C8 as stated: a row flagged 1 has a strictly negative
\* FirstRecordingDurationInHours.
C8_FlaggedDurationNegative ==
    ComputeDone =>
        \A i \in 1..Len(df) :
            df[i].InvalidFirstRecordingDateFlag = <<1>> =>
                df[i].FirstRecordingDurationInHours[1] < 0

\* C8 amended: FirstRecordingDurationInHours is the gap in seconds over 3600
\* with the fraction dropped, so a row flagged 1 has a duration that is
\* negative or 0, and negative exactly when the sign-up is 3600 seconds or
\* more after the first recording.
C8_FlaggedDurationNotPositive ==
    ComputeDone =>
        \A i \in 1..Len(df) :
            LET gap == df[i].FirstRecordingDateTime[1]
                           - df[i].AccountSignUpDateTime[1]
                h == df[i].FirstRecordingDurationInHours[1]
            IN  /\ gap >= 0 =>
                      h * SecondsPerHour <= gap /\ gap < (h + 1) * SecondsPerHour
                /\ gap < 0 =>
                      (h - 1) * SecondsPerHour < gap /\ gap <= h * SecondsPerHour
                /\ df[i].InvalidFirstRecordingDateFlag = <<1>> =>
                      h <= 0 /\ (h < 0 <=> gap <= -SecondsPerHour)

\* C8 witness: a row flagged 1 whose duration is 0 hours.
C8_Witness ==
    /\ ComputeDone
    /\ \E i \in 1..Len(df) :
          /\ df[i].InvalidFirstRecordingDateFlag = <<1>>
          /\ df[i].FirstRecordingDurationInHours = <<0>>

SummaryColumns ==
    {"FirstRecordingCaloriesBurned", "FirstRecordingDuration",
     "FirstRecordingTotalTime", "FirstRecordingUpdatedDateTime",
     "FirstRecordingMovingTime", "FirstRecordingAveragePace",
     "FirstRecordingAverageSpeed", "FirstRecordingTotalDistance",
     "FirstRecordingElevationGain", "FirstRecordingElevationLoss"}

\* C9: the table unpack_recording_summary returns has the six renamed
\* columns and exactly the ten summary columns, whatever keys the
\* dictionaries carry.
C9_TenSummaryColumns ==
    pc = "unpacked" =>
        \A i \in 1..Len(df) :
            DOMAIN df[i] =
                (DOMAIN Renamed(NoRecording @@ User(NaN, NaN, NaN))
                     \ {"Recording_Summary"}) \cup SummaryColumns

\* C10: no Recording_Summary value, missing, empty or not the text of a
\* dictionary, makes clean_dataframe raise.
C10_SummaryNeverHalts == error /= Raised("SyntaxError", 105)

====
